---- MODULE Spec2Model ----
(***************************************************************************)
(* The two command-line utilities of scripts/: embed_watermark.py and      *)
(* detect_watermark.py.  Each invocation is one process that runs main()   *)
(* once.  Strings are sequences of one-character strings, bytes are        *)
(* sequences of integers in 0..255.  The image codec (cv2) and the         *)
(* watermark library (imwatermark) are external: their outcomes are        *)
(* nondeterministic choices at the call sites.                             *)
(***************************************************************************)
EXTENDS Integers, Sequences, FiniteSets, TLC

\* ------------------------------------------------------------------ bounds
\* Longest payload_hex string tried.
MaxHexLen == 4
\* Largest payload_length tried by the detector (the smallest is -1).
MaxPayloadLength == 2

\* ------------------------------------------------------- program constants
\* args.get("jpeg_quality", 92)
DefaultJpegQuality == 92
\* [int(cv2.IMWRITE_PNG_COMPRESSION), 3]
PngCompression == 3
\* args.get("payload_length", 16)
DefaultPayloadLength == 16
\* payload_length * 8
BitsPerByte == 8

\* ----------------------------------------------------------------- strings
\* Characters a payload_hex is built from: a lower-case hex digit, an
\* upper-case hex digit, a letter that is no hex digit, and a space.
HexAlphabet == {"a", "B", "g", " "}

StringsUpTo(n) == UNION {[1..k -> HexAlphabet] : k \in 0..n}

\* str.lower() on the characters that occur in the model's strings.
LowerChar(c) ==
  CASE c = "A" -> "a" [] c = "B" -> "b" [] c = "E" -> "e" [] c = "G" -> "g"
    [] c = "J" -> "j" [] c = "N" -> "n" [] c = "P" -> "p" [] OTHER -> c

lower(s) == [i \in 1..Len(s) |-> LowerChar(s[i])]

\* str.endswith(suffix)
endswith(s, suffix) ==
  /\ Len(suffix) <= Len(s)
  /\ SubSeq(s, Len(s) - Len(suffix) + 1, Len(s)) = suffix

\* str.endswith(tuple_of_suffixes)
endswithAny(s, suffixes) == \E x \in suffixes : endswith(s, x)

\* ASCII whitespace, as bytes.fromhex() skips it.
IsSpace(c) == c \in {" "}

\* The digit table bytes.fromhex() reads: 0..15 for a hex digit of either
\* case, 37 for any other character.
DigitValue(c) ==
  CASE c = "0" -> 0 [] c = "1" -> 1 [] c = "2" -> 2 [] c = "3" -> 3
    [] c = "4" -> 4 [] c = "5" -> 5 [] c = "6" -> 6 [] c = "7" -> 7
    [] c = "8" -> 8 [] c = "9" -> 9
    [] c \in {"a", "A"} -> 10 [] c \in {"b", "B"} -> 11
    [] c \in {"c", "C"} -> 12 [] c \in {"d", "D"} -> 13
    [] c \in {"e", "E"} -> 14 [] c \in {"f", "F"} -> 15
    [] OTHER -> 37

\* bytes.fromhex(s) from position i on: white space is skipped before each
\* byte, then two hex digits are read; anything else is a ValueError.
RECURSIVE FromHexFrom(_, _)
FromHexFrom(s, i) ==
  IF i > Len(s) THEN [ok |-> TRUE, bytes |-> <<>>]
  ELSE IF IsSpace(s[i]) THEN FromHexFrom(s, i + 1)
  ELSE IF i + 1 > Len(s) \/ DigitValue(s[i]) >= 16 \/ DigitValue(s[i + 1]) >= 16
       THEN [ok |-> FALSE, bytes |-> <<>>]
  ELSE LET rest == FromHexFrom(s, i + 2)
       IN  [ok |-> rest.ok,
            bytes |-> IF rest.ok
                      THEN <<16 * DigitValue(s[i]) + DigitValue(s[i + 1])>> \o rest.bytes
                      ELSE <<>>]

\* A plausible slip: only lower-case digits are accepted.
FromHexCaseSensitive(s) ==
  IF \E i \in 1..Len(s) : s[i] # LowerChar(s[i])
  THEN [ok |-> FALSE, bytes |-> <<>>]
  ELSE FromHexFrom(s, 1)

\* A plausible slip: a string the parser cannot read is taken as far as it
\* goes instead of raising.
FromHexNoError(s) == [ok |-> TRUE, bytes |-> FromHexFrom(s, 1).bytes]

fromhex(s) == FromHexFrom(s, 1)

\* bytes.hex(): two lower-case digits per byte.
HexDigits == <<"0", "1", "2", "3", "4", "5", "6", "7",
               "8", "9", "a", "b", "c", "d", "e", "f">>

\* A plausible slip: upper-case digits.
HexUpper(b) ==
  LET up == <<"0", "1", "2", "3", "4", "5", "6", "7",
              "8", "9", "A", "B", "C", "D", "E", "F">>
  IN [i \in 1..(2 * Len(b)) |->
       IF i % 2 = 1 THEN up[(b[(i + 1) \div 2] \div 16) + 1]
                    ELSE up[(b[i \div 2] % 16) + 1]]

hex(b) ==
  [i \in 1..(2 * Len(b)) |->
     IF i % 2 = 1 THEN HexDigits[(b[(i + 1) \div 2] \div 16) + 1]
                  ELSE HexDigits[(b[i \div 2] % 16) + 1]]

\* ------------------------------------------------------------ JSON values
\* A value of the argument object: a string, an integer, or the mark of a
\* key the object does not hold.
JStr(x) == [t |-> "str", s |-> x, n |-> 0]
JInt(x) == [t |-> "int", s |-> <<>>, n |-> x]
NoKey == [t |-> "absent", s |-> <<>>, n |-> 0]

\* The five keys the two utilities read, as one dict.
Dict(i, o, h, q, l) ==
  [input_path |-> i, output_path |-> o, payload_hex |-> h,
   jpeg_quality |-> q, payload_length |-> l]

EmptyDict == Dict(NoKey, NoKey, NoKey, NoKey, NoKey)

\* dict.get(key, default)
get(d, key, default) == IF d[key].t = "absent" THEN default ELSE d[key]

\* sys.argv as the utility sees it: no argument at all, text that is no
\* JSON, JSON that is no object (a list, a number, a string, null), or an
\* object.
Argv(form, d) == [form |-> form, obj |-> d]

\* ------------------------------------------------------------------- paths
PathA == <<"a", ".", "p", "n", "g">>
PathB == <<"b", ".", "P", "N", "G">>
PathC == <<"c", ".", "j", "p", "g">>
PathD == <<"d", ".", "J", "p", "E", "g">>
PathE == <<"e", ".", "w", "e", "b", "p">>
PathF == <<"f", ".", "b", "i", "n">>
PathG == <<"g", "p", "n", "g">>

Paths == {PathA, PathB, PathC, PathD, PathE, PathF, PathG}

\* ------------------------------------------------------- files and images
\* What a path holds: nothing, bytes that are no image, or an image.  An
\* image is marked when a watermark was embedded in it, wm is that payload,
\* and exact says that the pixels are still those the embedder produced.
NoFile == [kind |-> "absent", marked |-> FALSE, wm |-> <<>>, exact |-> FALSE]
NotAnImage == [kind |-> "data", marked |-> FALSE, wm |-> <<>>, exact |-> FALSE]
Picture == [kind |-> "image", marked |-> FALSE, wm |-> <<>>, exact |-> TRUE]

\* Python's None, and the value of a local not assigned yet.
None == [kind |-> "None", marked |-> FALSE, wm |-> <<>>, exact |-> FALSE]

\* The files before any invocation: one readable image, one file that is
\* no image, nothing at the other paths.
InitFs == [p \in Paths |-> IF p = PathA THEN Picture
                           ELSE IF p = PathF THEN NotAnImage ELSE NoFile]

\* cv2.imread(path): the pixel buffer, or None when the path does not
\* exist or does not decode.
imread(files, path) ==
  IF files[path].kind = "image"
  THEN [kind |-> "array", marked |-> files[path].marked,
        wm |-> files[path].wm, exact |-> files[path].exact]
  ELSE None

\* The format cv2.imwrite() encodes in keeps the pixels only for PNG.
Lossless(path) == endswith(lower(path), <<".", "p", "n", "g">>)

\* The file cv2.imwrite(path, buffer, ...) leaves when it succeeds.
Encoded(path, buffer) ==
  [kind |-> "image", marked |-> buffer.marked, wm |-> buffer.wm,
   exact |-> buffer.exact /\ Lossless(path)]

\* cv2.imwrite() writes the file, returns False without writing (the path
\* cannot be opened), or raises (no encoder for the extension).
ImwriteOutcomes == {"written", "false", "raise"}

\* The encoding options: lines 33 to 40 of embed_watermark.py.
Params(flag, value) == [flag |-> flag, value |-> value]

ImwriteParamsCaseSensitive(path, quality) ==
  IF endswithAny(path, {<<".", "j", "p", "g">>, <<".", "j", "p", "e", "g">>})
  THEN Params("IMWRITE_JPEG_QUALITY", quality)
  ELSE IF endswith(path, <<".", "p", "n", "g">>)
  THEN Params("IMWRITE_PNG_COMPRESSION", PngCompression)
  ELSE IF endswith(path, <<".", "w", "e", "b", "p">>)
  THEN Params("IMWRITE_WEBP_QUALITY", quality)
  ELSE Params("none", 0)

ImwriteParams(path, quality) ==
  IF endswithAny(lower(path), {<<".", "j", "p", "g">>, <<".", "j", "p", "e", "g">>})
  THEN Params("IMWRITE_JPEG_QUALITY", quality)
  ELSE IF endswith(lower(path), <<".", "p", "n", "g">>)
  THEN Params("IMWRITE_PNG_COMPRESSION", PngCompression)
  ELSE IF endswith(lower(path), <<".", "w", "e", "b", "p">>)
  THEN Params("IMWRITE_WEBP_QUALITY", quality)
  ELSE Params("none", 0)

\* ------------------------------------------------------ watermark library
\* WatermarkEncoder.encode(img, 'dwtDctSvd'): a buffer of the same image
\* carrying the payload, or an internal failure.  A None image always fails.
WmEncodeOutcomes(image) == IF image.kind = "array" THEN {"ok", "raise"} ELSE {"raise"}

WmEncoded(image, bytes) == [image EXCEPT !.marked = TRUE, !.wm = bytes, !.exact = TRUE]

\* Bytes a decoder reads out of an image that holds no matching watermark.
Filler == {0, 255}

\* WatermarkDecoder('bytes', bits).decode(img, 'dwtDctSvd'): the embedded
\* payload when the pixels are intact and the length matches; otherwise
\* best-effort bytes of the asked length, or an internal failure.
WmDecodeResults(image, bits) ==
  IF image.kind = "array" /\ image.marked /\ image.exact
     /\ Len(image.wm) * BitsPerByte = bits
  THEN {[ok |-> TRUE, bytes |-> image.wm]}
  ELSE {[ok |-> FALSE, bytes |-> <<>>]} \cup
       (IF image.kind = "array" /\ bits >= 0
        THEN {[ok |-> TRUE, bytes |-> [i \in 1..(bits \div BitsPerByte) |-> f]] : f \in Filler}
        ELSE {})

\* -------------------------------------------------------------- exceptions
Exc(cls, text, path) == [cls |-> cls, text |-> text, path |-> path, code |-> 0]
NoExc == Exc("", "", <<>>)
\* sys.exit(code)
SystemExit(code) == [cls |-> "SystemExit", text |-> "", path |-> <<>>, code |-> code]

\* `except BaseException`: the slip that would catch the exit too.
CatchesBaseException(e) == TRUE

\* `except Exception as e`: every exception the pipeline raises but
\* SystemExit, which derives from BaseException only.
CaughtByExceptException(e) == e.cls # "SystemExit"

\* The two printed shapes.
OkObject == [status |-> "ok"]
OkPayload(h) == [status |-> "ok", payload_hex |-> h]
ErrorObject(text, path) == [status |-> "error", message |-> [text |-> text, path |-> path]]

\* `if img is None`
IsNoneNever(image) == FALSE

IsNone(image) == image = None

\* ------------------------------------------------------------------- state
VARIABLES
  fs,            \* the files: path -> content
  util,          \* the utility the current process runs: "embed", "detect", "none"
  argv,          \* its command line
  pc,            \* where main() stands
  inTry,         \* whether control is inside the try block
  exc,           \* the exception being raised, NoExc when none
  stdout,        \* the objects printed so far by the current process
  exitCode,      \* its exit code, -1 while it runs
  traceback,     \* whether it died of an uncaught exception
  input_path, output_path, payload_hex, jpeg_quality, payload_length,
  img, payload_bytes, watermarked, payload,
  wmCalls,       \* the calls made to the watermark library
  reads,         \* the cv2.imread calls made
  writes,        \* the cv2.imwrite calls made
  steps,         \* the pipeline steps entered, in order
  last_embed     \* the finished embed invocation, kept for a later detect

locals == <<input_path, output_path, payload_hex, jpeg_quality, payload_length,
            img, payload_bytes, watermarked, payload>>
logs == <<wmCalls, reads, writes, steps>>
vars == <<fs, util, argv, pc, inTry, exc, stdout, exitCode, traceback,
          locals, logs, last_embed>>

\* What a later detect invocation can know of the embed invocation: whether
\* it ran, whether it reported success, and then its payload_hex, its
\* output_path and whether cv2.imwrite() wrote the file.
NoEmbed == [done |-> FALSE, ok |-> FALSE, hex |-> <<>>, out |-> <<>>, written |-> FALSE]
FailedEmbed == [done |-> TRUE, ok |-> FALSE, hex |-> <<>>, out |-> <<>>, written |-> FALSE]

FreshLocals ==
  /\ input_path = <<>> /\ output_path = <<>> /\ payload_hex = <<>>
  /\ jpeg_quality = 0 /\ payload_length = 0
  /\ img = None /\ payload_bytes = <<>> /\ watermarked = None /\ payload = <<>>

Init ==
  /\ fs = InitFs
  /\ util = "none" /\ argv = Argv("none", EmptyDict) /\ pc = "idle"
  /\ inTry = FALSE /\ exc = NoExc
  /\ stdout = <<>> /\ exitCode = -1 /\ traceback = FALSE
  /\ FreshLocals
  /\ wmCalls = <<>> /\ reads = <<>> /\ writes = <<>> /\ steps = <<>>
  /\ last_embed = NoEmbed

\* ---------------------------------------------------------- the command line
PathValues == {NoKey} \cup {JStr(p) : p \in Paths}
HexValues == {NoKey} \cup {JStr(h) : h \in StringsUpTo(MaxHexLen)}
QualityValues == {NoKey, JInt(75)}
LengthValues == {NoKey} \cup {JInt(n) : n \in -1..MaxPayloadLength}

\* A new process of utility u with command line a.  The files are what
\* earlier processes left.
Spawn(u, a) ==
  /\ util' = u /\ argv' = a /\ pc' = "parse" /\ inTry' = TRUE
  /\ UNCHANGED <<fs, exc, stdout, exitCode, traceback, locals, logs, last_embed>>

\* A finished process is gone, and its memory and its output with it: the
\* utilities share nothing but the files.
Reap ==
  /\ pc = "done"
  /\ util' = "none" /\ argv' = Argv("none", EmptyDict) /\ pc' = "idle"
  /\ inTry' = FALSE /\ exc' = NoExc
  /\ stdout' = <<>> /\ exitCode' = -1 /\ traceback' = FALSE
  /\ input_path' = <<>> /\ output_path' = <<>> /\ payload_hex' = <<>>
  /\ jpeg_quality' = 0 /\ payload_length' = 0
  /\ img' = None /\ payload_bytes' = <<>> /\ watermarked' = None /\ payload' = <<>>
  /\ wmCalls' = <<>> /\ reads' = <<>> /\ writes' = <<>> /\ steps' = <<>>
  /\ UNCHANGED <<fs, last_embed>>

\* python embed_watermark.py [<json_args>].  The scenario holds one embed
\* invocation, before, between or after any number of detect invocations.
StartEmbed ==
  /\ pc = "idle"
  /\ ~last_embed.done
  /\ \/ \E f \in {"none", "malformed", "scalar"} : Spawn("embed", Argv(f, EmptyDict))
     \/ \E i \in PathValues, o \in PathValues, h \in HexValues, q \in QualityValues :
          Spawn("embed", Argv("object", Dict(i, o, h, q, NoKey)))

\* python detect_watermark.py [<json_args>]
StartDetect ==
  /\ pc = "idle"
  /\ \/ \E f \in {"none", "malformed", "scalar"} : Spawn("detect", Argv(f, EmptyDict))
     \/ \E i \in PathValues, l \in LengthValues :
          Spawn("detect", Argv("object", Dict(i, NoKey, NoKey, NoKey, l)))

\* ------------------------------------------------------- shared mechanics
\* An exception leaves the statement that raised it.
Raise(e) == pc' = "raised" /\ exc' = e

\* args = json.loads(sys.argv[1]) and the first failing subscript among
\* `required`: the exception raised, or NoExc when all of it succeeds.
ParseError(a, required) ==
  IF a.form = "none" THEN Exc("IndexError", "list index out of range", <<>>)
  ELSE IF a.form = "malformed" THEN Exc("JSONDecodeError", "Expecting value", <<>>)
  ELSE IF a.form = "scalar" THEN Exc("TypeError", "not subscriptable", <<>>)
  ELSE IF \E i \in 1..Len(required) : a.obj[required[i]].t = "absent"
  THEN LET first == CHOOSE i \in 1..Len(required) :
                      /\ a.obj[required[i]].t = "absent"
                      /\ \A j \in 1..(i - 1) : a.obj[required[j]].t # "absent"
       IN Exc("KeyError", required[first], <<>>)
  ELSE NoExc

\* ----------------------------------------------- embed_watermark.py main()
\* Lines 12 to 16: the argument is parsed and the four fields are read.
EmbedParse ==
  /\ util = "embed" /\ pc = "parse"
  /\ steps' = Append(steps, "parse")
  /\ LET e == ParseError(argv, <<"input_path", "output_path", "payload_hex">>)
     IN IF e # NoExc
        THEN /\ Raise(e)
             /\ UNCHANGED <<input_path, output_path, payload_hex, jpeg_quality>>
        ELSE /\ input_path' = argv.obj["input_path"].s
             /\ output_path' = argv.obj["output_path"].s
             /\ payload_hex' = argv.obj["payload_hex"].s
             /\ jpeg_quality' = get(argv.obj, "jpeg_quality", JInt(DefaultJpegQuality)).n
             /\ pc' = "load"
             /\ exc' = exc
  /\ UNCHANGED <<fs, util, argv, inTry, stdout, exitCode, traceback,
                 payload_length, img, payload_bytes, watermarked, payload,
                 wmCalls, reads, writes, last_embed>>

\* A plausible slip: the output file is opened before the input is read.
EmbedLoadTouchesOutput ==
  /\ util = "embed" /\ pc = "load"
  /\ steps' = Append(steps, "load")
  /\ img' = imread(fs, input_path)
  /\ reads' = Append(reads, [path |-> input_path, result |-> img'])
  /\ fs' = [fs EXCEPT ![output_path] = NotAnImage]
  /\ IF IsNone(img')
     THEN /\ stdout' = Append(stdout, ErrorObject("Failed to read image: ", input_path))
          /\ Raise(SystemExit(1))
     ELSE /\ pc' = "hex"
          /\ UNCHANGED <<stdout, exc>>
  /\ UNCHANGED <<util, argv, inTry, exitCode, traceback,
                 input_path, output_path, payload_hex, jpeg_quality, payload_length,
                 payload_bytes, watermarked, payload, wmCalls, writes, last_embed>>

\* Lines 21 to 24: the image is read; without one the failure object is
\* printed and sys.exit(1) raises SystemExit inside the try block.
EmbedLoad ==
  /\ util = "embed" /\ pc = "load"
  /\ steps' = Append(steps, "load")
  /\ img' = imread(fs, input_path)
  /\ reads' = Append(reads, [path |-> input_path, result |-> img'])
  /\ IF IsNone(img')
     THEN /\ stdout' = Append(stdout, ErrorObject("Failed to read image: ", input_path))
          /\ Raise(SystemExit(1))
     ELSE /\ pc' = "hex"
          /\ UNCHANGED <<stdout, exc>>
  /\ UNCHANGED <<fs, util, argv, inTry, exitCode, traceback,
                 input_path, output_path, payload_hex, jpeg_quality, payload_length,
                 payload_bytes, watermarked, payload, wmCalls, writes, last_embed>>

\* Line 26: payload_bytes = bytes.fromhex(payload_hex)
EmbedHex ==
  /\ util = "embed" /\ pc = "hex"
  /\ steps' = Append(steps, "hex")
  /\ LET r == fromhex(payload_hex)
     IN IF r.ok
        THEN /\ payload_bytes' = r.bytes
             /\ pc' = "encode"
             /\ exc' = exc
        ELSE /\ Raise(Exc("ValueError", "non-hexadecimal number found in fromhex() arg", <<>>))
             /\ UNCHANGED payload_bytes
  /\ UNCHANGED <<fs, util, argv, inTry, stdout, exitCode, traceback,
                 input_path, output_path, payload_hex, jpeg_quality, payload_length,
                 img, watermarked, payload, wmCalls, reads, writes, last_embed>>

\* Lines 28 to 30: the watermark is embedded.
EmbedEncode ==
  /\ util = "embed" /\ pc = "encode"
  /\ steps' = Append(steps, "encode")
  /\ \E outcome \in WmEncodeOutcomes(img) :
       /\ wmCalls' = Append(wmCalls, [op |-> "encode", mode |-> "bytes",
                                      method |-> "dwtDctSvd",
                                      bytes |-> payload_bytes,
                                      bits |-> 0, ok |-> outcome = "ok"])
       /\ IF outcome = "ok"
          THEN /\ watermarked' = WmEncoded(img, payload_bytes)
               /\ pc' = "write"
               /\ exc' = exc
          ELSE /\ Raise(Exc("RuntimeError", "watermark encoder failed", <<>>))
               /\ UNCHANGED watermarked
  /\ UNCHANGED <<fs, util, argv, inTry, stdout, exitCode, traceback,
                 input_path, output_path, payload_hex, jpeg_quality, payload_length,
                 img, payload_bytes, payload, reads, writes, last_embed>>

\* Lines 33 to 40: the encoding options follow the extension and the file
\* is written; the value cv2.imwrite() returns is not looked at.
EmbedWrite ==
  /\ util = "embed" /\ pc = "write"
  /\ steps' = Append(steps, "write")
  /\ \E outcome \in ImwriteOutcomes :
       /\ writes' = Append(writes, [path |-> output_path,
                                    params |-> ImwriteParams(output_path, jpeg_quality),
                                    result |-> outcome])
       /\ fs' = IF outcome = "written"
                THEN [fs EXCEPT ![output_path] = Encoded(output_path, watermarked)]
                ELSE fs
       /\ IF outcome = "raise"
          THEN Raise(Exc("cv2.error", "could not write the image", <<>>))
          ELSE pc' = "emit" /\ exc' = exc
  /\ UNCHANGED <<util, argv, inTry, stdout, exitCode, traceback,
                 locals, wmCalls, reads, last_embed>>

\* Line 42: print(json.dumps({"status": "ok"})), and main() returns.
EmbedEmit ==
  /\ util = "embed" /\ pc = "emit"
  /\ steps' = Append(steps, "emit")
  /\ stdout' = Append(stdout, OkObject)
  /\ pc' = "return"
  /\ inTry' = FALSE
  /\ UNCHANGED <<fs, util, argv, exc, exitCode, traceback,
                 locals, wmCalls, reads, writes, last_embed>>

\* A plausible slip: the handler prints and forgets sys.exit(1).
HandlerWithoutExit ==
  /\ pc = "raised" /\ inTry /\ CaughtByExceptException(exc)
  /\ stdout' = Append(stdout, ErrorObject(exc.text, exc.path))
  /\ exc' = NoExc
  /\ pc' = "return"
  /\ inTry' = FALSE
  /\ UNCHANGED <<fs, util, argv, exitCode, traceback, locals, logs, last_embed>>

\* Lines 44 to 46: an exception raised in the try block and matched by
\* `except Exception` is printed as the failure object; sys.exit(1) then
\* raises SystemExit outside the try block.
Handler ==
  /\ pc = "raised" /\ inTry /\ CaughtByExceptException(exc)
  /\ stdout' = Append(stdout, ErrorObject(exc.text, exc.path))
  /\ exc' = SystemExit(1)
  /\ inTry' = FALSE
  /\ UNCHANGED <<fs, util, argv, pc, exitCode, traceback, locals, logs, last_embed>>

EmbedExcept == util = "embed" /\ Handler

\* The process ends: main() returned (exit code 0), or an exception left
\* main(): SystemExit gives its code, any other one a traceback and code 1.
ProcessEnds ==
  /\ \/ pc = "return"
     \/ pc = "raised" /\ ~(inTry /\ CaughtByExceptException(exc))
  /\ exitCode' = IF pc = "return" THEN 0
                 ELSE IF exc.cls = "SystemExit" THEN exc.code ELSE 1
  /\ traceback' = (pc = "raised" /\ exc.cls # "SystemExit")
  /\ pc' = "done"
  /\ inTry' = FALSE

EmbedExit ==
  /\ util = "embed" /\ ProcessEnds
  /\ last_embed' = IF pc = "return"
                   THEN [done |-> TRUE, ok |-> TRUE, hex |-> payload_hex,
                         out |-> output_path,
                         written |-> \E k \in 1..Len(writes) :
                                       writes[k].result = "written"]
                   ELSE FailedEmbed
  /\ UNCHANGED <<fs, util, argv, exc, stdout, locals, logs>>

\* ---------------------------------------------- detect_watermark.py main()
\* Lines 13 to 15: the argument is parsed and the two fields are read.
DetectParse ==
  /\ util = "detect" /\ pc = "parse"
  /\ steps' = Append(steps, "parse")
  /\ LET e == ParseError(argv, <<"input_path">>)
     IN IF e # NoExc
        THEN /\ Raise(e)
             /\ UNCHANGED <<input_path, payload_length>>
        ELSE /\ input_path' = argv.obj["input_path"].s
             /\ payload_length' = get(argv.obj, "payload_length", JInt(DefaultPayloadLength)).n
             /\ pc' = "load"
             /\ exc' = exc
  /\ UNCHANGED <<fs, util, argv, inTry, stdout, exitCode, traceback,
                 output_path, payload_hex, jpeg_quality,
                 img, payload_bytes, watermarked, payload,
                 wmCalls, reads, writes, last_embed>>

\* Lines 20 to 23: the image is read; without one the failure object is
\* printed and sys.exit(1) raises SystemExit inside the try block.
DetectLoad ==
  /\ util = "detect" /\ pc = "load"
  /\ steps' = Append(steps, "load")
  /\ img' = imread(fs, input_path)
  /\ reads' = Append(reads, [path |-> input_path, result |-> img'])
  /\ IF IsNone(img')
     THEN /\ stdout' = Append(stdout, ErrorObject("Failed to read image: ", input_path))
          /\ Raise(SystemExit(1))
     ELSE /\ pc' = "decode"
          /\ UNCHANGED <<stdout, exc>>
  /\ UNCHANGED <<fs, util, argv, inTry, exitCode, traceback,
                 input_path, output_path, payload_hex, jpeg_quality, payload_length,
                 payload_bytes, watermarked, payload, wmCalls, writes, last_embed>>

\* A plausible slip: the byte count is passed as the bit count.
DecoderBitsNoFactor(length) == length

\* WatermarkDecoder('bytes', payload_length * 8)
DecoderBits(length) == length * BitsPerByte

\* Lines 26 and 27: the decoder is built for the bit length and run.
DetectDecode ==
  /\ util = "detect" /\ pc = "decode"
  /\ steps' = Append(steps, "decode")
  /\ \E r \in WmDecodeResults(img, DecoderBits(payload_length)) :
       /\ wmCalls' = Append(wmCalls, [op |-> "decode", mode |-> "bytes",
                                      method |-> "dwtDctSvd", bytes |-> r.bytes,
                                      bits |-> DecoderBits(payload_length), ok |-> r.ok])
       /\ IF r.ok
          THEN /\ payload' = r.bytes
               /\ pc' = "emit"
               /\ exc' = exc
          ELSE /\ Raise(Exc("RuntimeError", "watermark decoder failed", <<>>))
               /\ UNCHANGED payload
  /\ UNCHANGED <<fs, util, argv, inTry, stdout, exitCode, traceback,
                 input_path, output_path, payload_hex, jpeg_quality, payload_length,
                 img, payload_bytes, watermarked, reads, writes, last_embed>>

\* Line 29: print(json.dumps({"status": "ok", "payload_hex": payload.hex()}))
DetectEmit ==
  /\ util = "detect" /\ pc = "emit"
  /\ steps' = Append(steps, "emit")
  /\ stdout' = Append(stdout, OkPayload(hex(payload)))
  /\ pc' = "return"
  /\ inTry' = FALSE
  /\ UNCHANGED <<fs, util, argv, exc, exitCode, traceback,
                 locals, wmCalls, reads, writes, last_embed>>

\* Lines 31 to 33.
DetectExcept == util = "detect" /\ Handler

DetectExit ==
  /\ util = "detect" /\ ProcessEnds
  /\ UNCHANGED <<fs, util, argv, exc, stdout, locals, logs, last_embed>>

\* ------------------------------------------------------------ specification
Next ==
  \/ StartEmbed \/ EmbedParse \/ EmbedLoad \/ EmbedHex \/ EmbedEncode
  \/ EmbedWrite \/ EmbedEmit \/ EmbedExcept \/ EmbedExit
  \/ StartDetect \/ DetectParse \/ DetectLoad \/ DetectDecode
  \/ DetectEmit \/ DetectExcept \/ DetectExit
  \/ Reap

Spec == Init /\ [][Next]_vars

\* ------------------------------------------------------------- properties
\* What the properties below say of a finished process.
Finished == pc = "done"
Running == pc \notin {"idle", "done"}
Printed == stdout[Len(stdout)]

\* One step of the running process, whichever utility it is.
ProcessStep ==
  \/ EmbedParse \/ EmbedLoad \/ EmbedHex \/ EmbedEncode \/ EmbedWrite
  \/ EmbedEmit \/ EmbedExcept \/ EmbedExit
  \/ DetectParse \/ DetectLoad \/ DetectDecode \/ DetectEmit
  \/ DetectExcept \/ DetectExit

\* The request as given on the command line.
IsObject == argv.form = "object"
Given(key) == IsObject /\ argv.obj[key].t # "absent"

\* Hexadecimal notation: the digits, and the value of each.
HexDigitChars == {"0", "1", "2", "3", "4", "5", "6", "7", "8", "9",
                  "a", "b", "c", "d", "e", "f", "A", "B", "C", "D", "E", "F"}
HexCharValue ==
  "0" :> 0 @@ "1" :> 1 @@ "2" :> 2 @@ "3" :> 3 @@ "4" :> 4 @@ "5" :> 5 @@
  "6" :> 6 @@ "7" :> 7 @@ "8" :> 8 @@ "9" :> 9 @@
  "a" :> 10 @@ "b" :> 11 @@ "c" :> 12 @@ "d" :> 13 @@ "e" :> 14 @@ "f" :> 15 @@
  "A" :> 10 @@ "B" :> 11 @@ "C" :> 12 @@ "D" :> 13 @@ "E" :> 14 @@ "F" :> 15

\* A string of hex digits only, two for each byte.
ValidHex(h) == Len(h) % 2 = 0 /\ \A i \in 1..Len(h) : h[i] \in HexDigitChars

\* The bytes a valid hex string denotes.
HexDecoding(h) ==
  [k \in 1..(Len(h) \div 2) |-> 16 * HexCharValue[h[2 * k - 1]] + HexCharValue[h[2 * k]]]

\* C1: every invocation of either utility prints exactly one JSON object
\* before it terminates, on every path: never more than one while it runs,
\* exactly one once it has ended, and a running process always has a next
\* step, so no path ends without output.  In particular the exit raised
\* after the image-load message is not caught and printed a second time.
C1_ExactlyOneObject ==
  /\ Len(stdout) <= 1
  /\ Finished => Len(stdout) = 1
  /\ Running => ENABLED ProcessStep

\* A process that ended on the image-load failure path, with its one object.
C1_Witness ==
  /\ Finished /\ Len(reads) = 1 /\ reads[1].result = None
  /\ Len(stdout) = 1 /\ Printed.status = "error" /\ ~inTry

\* C2: the exit code agrees with the printed status: 0 exactly with "ok",
\* 1 exactly with "error"; a detect success carries payload_hex, an embed
\* success carries the status alone, a failure carries the message.
C2_ExitCodeMatchesStatus ==
  Finished =>
    /\ stdout # <<>>
    /\ exitCode \in {0, 1}
    /\ Printed.status \in {"ok", "error"}
    /\ exitCode = 0 <=> Printed.status = "ok"
    /\ exitCode = 1 <=> Printed.status = "error"
    /\ Printed.status = "ok" /\ util = "detect" => DOMAIN Printed = {"status", "payload_hex"}
    /\ Printed.status = "ok" /\ util = "embed" => DOMAIN Printed = {"status"}
    /\ Printed.status = "error" => DOMAIN Printed = {"status", "message"}

\* A detect invocation that succeeded: exit code 0, payload_hex printed.
C2_Witness ==
  /\ Finished /\ util = "detect" /\ exitCode = 0
  /\ Len(stdout) = 1 /\ DOMAIN Printed = {"status", "payload_hex"}

\* C3: whenever the codec's encode of the output file reports failure, the
\* embedder prints the failure object and exits 1, so that "ok" with exit
\* code 0 is emitted only when the output file was written.
C3_EncodeFailureIsReported ==
  Finished /\ util = "embed" /\ writes # <<>> /\ writes[1].result # "written" =>
    /\ stdout # <<>> /\ Printed.status = "error"
    /\ exitCode = 1

\* The files as the current process found them: the one embed invocation
\* starts from the initial files, and a detect invocation writes none.
FilesAtStart == IF util = "embed" THEN InitFs ELSE fs

\* C4: when the image decode returns no buffer (input_path does not exist
\* or is no image), the one object printed is a failure whose message
\* names the given input_path, the exit code is 1, the watermark library
\* is never called and the process does not die of a traceback; and any
\* invocation given such an input_path ends with a failure and exit code 1.
C4_UnreadableInputFails ==
  /\ Finished /\ reads # <<>> /\ reads[1].result = None =>
       /\ Len(stdout) = 1 /\ Printed.status = "error"
       /\ Printed.message.text = "Failed to read image: "
       /\ Printed.message.path = argv.obj["input_path"].s
       /\ exitCode = 1 /\ wmCalls = <<>> /\ ~traceback
  /\ Finished /\ Given("input_path")
       /\ FilesAtStart[argv.obj["input_path"].s].kind # "image" =>
       /\ stdout # <<>> /\ Printed.status = "error"
       /\ exitCode = 1 /\ wmCalls = <<>> /\ ~traceback

\* A detect invocation on a path that holds no file.
C4_Witness ==
  /\ Finished /\ util = "detect" /\ Given("input_path")
  /\ fs[argv.obj["input_path"].s].kind = "absent"
  /\ Len(reads) = 1 /\ reads[1].result = None
  /\ Printed.message.path = argv.obj["input_path"].s

\* The fields main() subscripts.
Required == IF util = "embed" THEN {"input_path", "output_path", "payload_hex"}
            ELSE {"input_path"}

\* The input errors but the payload's: no argument, malformed JSON, JSON
\* that is no object, a required field missing.
RequestError ==
  \/ argv.form \in {"none", "malformed", "scalar"}
  \/ \E k \in Required : ~Given(k)

\* A failure response: the failure object, exit code 1, no traceback.
FailureResponse ==
  /\ stdout # <<>> /\ Printed.status = "error"
  /\ exitCode = 1 /\ ~traceback

\* C5 as stated: every input error, among them a payload_hex with a
\* character that is no hex digit or with an odd length, ends with a
\* failure response and exit code 1.
C5_EveryInputErrorFails ==
  Finished /\ (RequestError \/ (util = "embed" /\ Given("payload_hex")
                                /\ ~ValidHex(argv.obj["payload_hex"].s))) =>
    FailureResponse

\* The places of the characters of h that are no white space, in order.
RECURSIVE InkPlaces(_, _)
InkPlaces(h, i) ==
  IF i > Len(h) THEN <<>>
  ELSE IF h[i] = " " THEN InkPlaces(h, i + 1)
  ELSE <<i>> \o InkPlaces(h, i + 1)

\* Hex digits in adjacent pairs, with white space allowed only around the
\* pairs: what the hex parser of the embedder accepts.
SpacedHex(h) ==
  LET at == InkPlaces(h, 1)
  IN /\ Len(at) % 2 = 0
     /\ \A k \in 1..Len(at) : h[at[k]] \in HexDigitChars
     /\ \A k \in 1..(Len(at) \div 2) : at[2 * k] = at[2 * k - 1] + 1

\* C5 as amended: the same, where the payload_hex that must fail is one
\* that is not hex digits in adjacent pairs once the white space around
\* the pairs is set aside.
C5_RejectedInputFails ==
  Finished /\ (RequestError \/ (util = "embed" /\ Given("payload_hex")
                                /\ ~SpacedHex(argv.obj["payload_hex"].s))) =>
    FailureResponse

\* An embed invocation on a readable image that failed on its payload_hex.
C5_Witness ==
  /\ Finished /\ util = "embed" /\ ~RequestError
  /\ ~SpacedHex(argv.obj["payload_hex"].s)
  /\ reads # <<>> /\ reads[1].result # None
  /\ FailureResponse /\ Printed.message.text = "non-hexadecimal number found in fromhex() arg"

\* A detect invocation has ended that read the file a successful embed
\* invocation wrote, in a lossless format, from a valid payload_hex H of N
\* bytes, and that asked for payload_length N.
RoundTrip ==
  /\ Finished /\ util = "detect"
  /\ last_embed.ok /\ last_embed.written /\ Lossless(last_embed.out)
  /\ ValidHex(last_embed.hex)
  /\ Given("input_path") /\ argv.obj["input_path"].s = last_embed.out
  /\ Given("payload_length")
  /\ argv.obj["payload_length"].n = Len(last_embed.hex) \div 2

\* C6 as stated: the round trip returns the ok object whose payload_hex
\* equals H, for every valid hex H.
C6_RoundTripReturnsH ==
  RoundTrip =>
    /\ Len(stdout) = 1 /\ Printed.status = "ok"
    /\ Printed.payload_hex = last_embed.hex

\* C6 as amended: the round trip returns the ok object whose payload_hex
\* is H in lower case, and denotes the bytes H denotes.
C6_RoundTripReturnsLowerH ==
  RoundTrip =>
    /\ Len(stdout) = 1 /\ Printed.status = "ok" /\ exitCode = 0
    /\ Printed.payload_hex = lower(last_embed.hex)
    /\ ValidHex(Printed.payload_hex)
    /\ HexDecoding(Printed.payload_hex) = HexDecoding(last_embed.hex)

\* A round trip of two bytes given with an upper-case digit.
C6_Witness ==
  /\ RoundTrip /\ last_embed.hex = <<"a", "B", "B", "a">>
  /\ Printed.payload_hex = <<"a", "b", "b", "a">>

\* C7: for every valid payload_hex, whatever the case of its digits, the
\* hex parser does not refuse it, and every call of the watermark encoder
\* is made in payload mode "bytes" and transform mode "dwtDctSvd" with the
\* bytes payload_hex denotes, all of them.
C7_EncoderGetsTheBytes ==
  util = "embed" /\ Given("payload_hex") /\ ValidHex(argv.obj["payload_hex"].s) =>
    /\ exc.cls # "ValueError"
    /\ stdout # <<>> /\ Printed.status = "error" =>
         Printed.message.text # "non-hexadecimal number found in fromhex() arg"
    /\ \A k \in 1..Len(wmCalls) :
         /\ wmCalls[k].op = "encode"
         /\ wmCalls[k].mode = "bytes" /\ wmCalls[k].method = "dwtDctSvd"
         /\ wmCalls[k].bytes = HexDecoding(argv.obj["payload_hex"].s)
         /\ 2 * Len(wmCalls[k].bytes) = Len(argv.obj["payload_hex"].s)

\* The encoder called with the two bytes of a mixed-case payload_hex.
C7_Witness ==
  /\ util = "embed" /\ Len(wmCalls) = 1
  /\ argv.obj["payload_hex"].s = <<"B", "a", "a", "B">>
  /\ wmCalls[1].bytes = <<186, 171>>

\* C8: the decoder is called with a bit length of 8 times payload_length,
\* and of 128 when the request holds no payload_length; on success the
\* printed payload_hex is the lower-case hex of exactly the bytes the
\* decoder returned.
C8_DecoderGetsTheBits ==
  util = "detect" =>
    /\ \A k \in 1..Len(wmCalls) :
         /\ wmCalls[k].op = "decode"
         /\ wmCalls[k].mode = "bytes" /\ wmCalls[k].method = "dwtDctSvd"
         /\ Given("payload_length") => wmCalls[k].bits = 8 * argv.obj["payload_length"].n
         /\ ~Given("payload_length") => wmCalls[k].bits = 128
    /\ Finished /\ stdout # <<>> /\ Printed.status = "ok" =>
         /\ Len(wmCalls) = 1 /\ wmCalls[1].ok
         /\ Len(Printed.payload_hex) = 2 * Len(wmCalls[1].bytes)
         /\ \A i \in 1..Len(Printed.payload_hex) :
              Printed.payload_hex[i] \in {"0", "1", "2", "3", "4", "5", "6", "7",
                                          "8", "9", "a", "b", "c", "d", "e", "f"}
         /\ HexDecoding(Printed.payload_hex) = wmCalls[1].bytes

\* A detect invocation without payload_length that printed 16 bytes.
C8_Witness ==
  /\ Finished /\ util = "detect" /\ IsObject /\ ~Given("payload_length")
  /\ Len(wmCalls) = 1 /\ wmCalls[1].bits = 128
  /\ Printed.status = "ok" /\ Len(Printed.payload_hex) = 32

\* The extension of a path: what follows its last dot, in lower case; the
\* empty string when the path has no dot.
Extension(path) ==
  IF \E i \in 1..Len(path) : path[i] = "."
  THEN LET dot == CHOOSE i \in 1..Len(path) :
                    /\ path[i] = "."
                    /\ \A j \in (i + 1)..Len(path) : path[j] # "."
       IN lower(SubSeq(path, dot + 1, Len(path)))
  ELSE <<>>

\* The table of section 4.5.
Profile(ext, quality) ==
  IF ext \in {<<"j", "p", "g">>, <<"j", "p", "e", "g">>}
  THEN [flag |-> "IMWRITE_JPEG_QUALITY", value |-> quality]
  ELSE IF ext = <<"p", "n", "g">>
  THEN [flag |-> "IMWRITE_PNG_COMPRESSION", value |-> 3]
  ELSE IF ext = <<"w", "e", "b", "p">>
  THEN [flag |-> "IMWRITE_WEBP_QUALITY", value |-> quality]
  ELSE [flag |-> "none", value |-> 0]

\* C9: the embedder writes at most once, to output_path, with the one
\* profile the table gives for the extension of output_path, whatever its
\* case, and for the request's jpeg_quality, or 92 when it holds none.
C9_ProfileFollowsExtension ==
  util = "embed" =>
    /\ Len(writes) <= 1
    /\ \A k \in 1..Len(writes) :
         /\ writes[k].path = argv.obj["output_path"].s
         /\ writes[k].params =
              Profile(Extension(argv.obj["output_path"].s),
                      IF Given("jpeg_quality") THEN argv.obj["jpeg_quality"].n ELSE 92)

\* A write to d.JpEg with no jpeg_quality in the request.
C9_Witness ==
  /\ util = "embed" /\ Len(writes) = 1 /\ ~Given("jpeg_quality")
  /\ writes[1].path = PathD
  /\ writes[1].params = [flag |-> "IMWRITE_JPEG_QUALITY", value |-> 92]

\* The place of each step in the pipeline.
Rank(step) ==
  CASE step = "parse" -> 1 [] step = "load" -> 2
    [] step \in {"hex", "decode"} -> 3 [] step = "encode" -> 4
    [] step = "write" -> 5 [] step = "emit" -> 6

\* C10: the steps run in the order parse, load, transform, write, emit,
\* none twice; the embedder writes at most once, only after parsing,
\* loading, hex decoding and embedding have succeeded, so an invocation
\* that fails earlier leaves every file as it was; the success object is
\* printed only after the write step; no file differs from the initial
\* one but the file an embed invocation wrote, so the detector writes none.
C10_LinearPipeline ==
  /\ \A i, j \in 1..Len(steps) : i < j => Rank(steps[i]) < Rank(steps[j])
  /\ \A i \in 1..Len(steps) :
       steps[i] \in (IF util = "embed"
                     THEN {"parse", "load", "hex", "encode", "write", "emit"}
                     ELSE {"parse", "load", "decode", "emit"})
  /\ Len(writes) <= 1
  /\ util = "detect" => writes = <<>>
  /\ writes # <<>> =>
       /\ steps[1] = "parse" /\ steps[2] = "load" /\ steps[3] = "hex"
       /\ steps[4] = "encode" /\ steps[5] = "write"
       /\ img # None /\ fromhex(payload_hex).ok
       /\ Len(wmCalls) = 1 /\ wmCalls[1].ok
  /\ util = "embed" /\ writes = <<>> => fs = InitFs
  /\ util = "embed" /\ stdout # <<>> /\ Printed.status = "ok" =>
       /\ Len(writes) = 1
       /\ steps = <<"parse", "load", "hex", "encode", "write", "emit">>
  /\ \A p \in Paths :
       fs[p] # InitFs[p] =>
         \/ util = "embed" /\ writes # <<>> /\ writes[1].path = p
              /\ writes[1].result = "written"
         \/ last_embed.ok /\ last_embed.written /\ last_embed.out = p

\* An embed invocation that ran all six steps and changed a file.
C10_Witness ==
  /\ Finished /\ util = "embed" /\ fs # InitFs
  /\ steps = <<"parse", "load", "hex", "encode", "write", "emit">>

====
